---- MODULE Spec2Model ----
(***************************************************************************)
(* State-machine model of the WhatsApp webhook server: the dedup / rate    *)
(* guard, the in-memory state store, the reply generator (timeout race,    *)
(* strict parse, one-shot repair) and the POST /webhook orchestration      *)
(* loop.  Every await of the handler is a yield point: several deliveries  *)
(* run interleaved on the single-threaded event loop.                      *)
(***************************************************************************)
EXTENDS Integers, Sequences, FiniteSets, TLC

\* ------------------------------------------------------------------ bounds

\* Concurrent webhook deliveries (request handlers) of one run.
NumDeliveries == 2
\* Longest batch (messages of one delivery).
MaxBatch == 3
\* Messages of one run, over all its deliveries, when deliveries overlap.
MaxMsgs == 2
\* Distinct message identifiers.
NumIds == 3
\* Advances of the wall clock in one run.
MaxTicks == 1
\* Longest generation content, in tokens, that the reply generator is run on.
MaxContentLen == 5
\* How far below the quota the rate counter of a sender may start.
RateHeadroom == 1

\* ------------------------------------------------------- program constants

duplicateWindowMs == 24 * 60 * 60 * 1000
rateWindowMs == 60 * 1000
rateLimitPerWindow == 20
\* timeoutMs passed by POST /webhook, and the cap of the transport timeout.
WebhookTimeoutMs == 8000
AxiosTimeoutCap == 7900

FALLBACK_BODY == "Tesekkurler. Size dogru teklif hazirlamak icin ..."
HANDOFF_ACK_BODY == "Tamam. Yetkili arkadasim devreye girsin ..."

\* ------------------------------------------------------------ value spaces

Deliveries == 1..NumDeliveries
Ids == 1..NumIds
Phones == {"905550001", "905550002"}

\* Absent map entry (Map.get(...) === undefined).
NoTime == -1
NoRate == [count |-> 0, windowStart |-> NoTime]

\* A ConversationState / partial is a function from a set of keys to values;
\* the empty object {} is the function with the empty domain.
EmptyObj == [k \in {} |-> ""]

\* ------------------------------------------------- generation content (JSON)
\* The content string of a generation response is a sequence of tokens:
\* the structural characters, a number literal "7", prose "x" (text that is
\* no JSON), and member tokens, each standing for the complete member list
\* of one JSON object ("reply": ..., "intent": ..., ...).

JStr(s) == [t |-> "str", v |-> s]
JNum == [t |-> "num", v |-> ""]
JUndef == [t |-> "undef", v |-> ""]

\* The parsed members of each member token: key -> JSON value.  fc is the
\* fields_collected object (key -> JSON value), fcGiven whether the key is there.
Members(m) ==
  CASE m = "M_quote" ->
         [reply |-> JStr("r1"), intent |-> JStr("quote"),
          fc |-> [k \in {"usage"} |-> JStr("u1")], fcGiven |-> TRUE,
          notes_for_human |-> JStr("n1")]
    [] m = "M_handoff" ->
         [reply |-> JStr("r2"), intent |-> JStr("handoff"),
          fc |-> [k \in {"usage"} |-> JStr("u2")], fcGiven |-> TRUE,
          notes_for_human |-> JStr("n2")]
    [] m = "M_HandOff" ->
         [reply |-> JStr("r3"), intent |-> JStr("HandOff"),
          fc |-> [k \in {"size_mm_or_ligne", "last_intent"} |-> JStr("s1")],
          fcGiven |-> TRUE, notes_for_human |-> JUndef]
    [] m = "M_noreply" ->
         [reply |-> JUndef, intent |-> JStr("quote"),
          fc |-> EmptyObj, fcGiven |-> TRUE, notes_for_human |-> JStr("")]
    [] m = "M_emptyreply" ->
         [reply |-> JStr(""), intent |-> JStr("quote"),
          fc |-> EmptyObj, fcGiven |-> FALSE, notes_for_human |-> JUndef]
    [] m = "M_numfield" ->
         [reply |-> JStr("r1"), intent |-> JStr("quote"),
          fc |-> [k \in {"quantity"} |-> JNum], fcGiven |-> TRUE,
          notes_for_human |-> JUndef]
    [] OTHER ->  \* "M_empty": the object {}
         [reply |-> JUndef, intent |-> JUndef,
          fc |-> EmptyObj, fcGiven |-> FALSE, notes_for_human |-> JUndef]

MemberTokens ==
  {"M_quote", "M_handoff", "M_HandOff", "M_noreply", "M_emptyreply", "M_numfield"}
Tokens == {"{", "}", "[", "]", ",", "7", "x"} \cup MemberTokens

\* The absent result (null) and a present LlmOutput.
Absent ==
  [present |-> FALSE, reply |-> "", intent |-> "", fields_collected |-> EmptyObj,
   notes_for_human |-> ""]

\* llmOutputSchema.safeParse of a parsed JSON value: success and data.
\* kind is "obj", "arr" or "num"; m the member token of an object ("" for {}).
SchemaOk(kind, m) ==
  /\ kind = "obj"
  /\ LET o == Members(m) IN
       /\ o.reply.t = "str" /\ o.reply.v # ""
       /\ o.intent.t = "str" /\ o.intent.v # ""
       /\ (o.fcGiven => \A k \in DOMAIN o.fc : o.fc[k].t = "str")
       /\ o.notes_for_human.t \in {"str", "undef"}

SchemaData(m) ==
  LET o == Members(m) IN
    [present |-> TRUE, reply |-> o.reply.v, intent |-> o.intent.v,
     fields_collected |->
       IF o.fcGiven THEN [k \in DOMAIN o.fc |-> o.fc[k].v] ELSE EmptyObj,
     notes_for_human |->
       IF o.notes_for_human.t = "str" THEN o.notes_for_human.v ELSE ""]

\* JSON.parse: the index after the JSON value that starts at s[i], 0 if none.
RECURSIVE ValueEnd(_, _)
RECURSIVE ElemsEnd(_, _)
ValueEnd(s, i) ==
  IF i > Len(s) THEN 0
  ELSE IF s[i] = "7" THEN i + 1
  ELSE IF s[i] = "{" THEN
         IF i + 1 <= Len(s) /\ s[i + 1] = "}" THEN i + 2
         ELSE IF i + 2 <= Len(s) /\ s[i + 1] \in MemberTokens /\ s[i + 2] = "}"
              THEN i + 3 ELSE 0
  ELSE IF s[i] = "[" THEN
         IF i + 1 <= Len(s) /\ s[i + 1] = "]" THEN i + 2 ELSE ElemsEnd(s, i + 1)
  ELSE 0

ElemsEnd(s, i) ==
  LET e == ValueEnd(s, i) IN
    IF e = 0 \/ e > Len(s) THEN 0
    ELSE IF s[e] = "]" THEN e + 1
    ELSE IF s[e] = "," THEN ElemsEnd(s, e + 1)
    ELSE 0

\* JSON.parse(s): ok = FALSE when it throws a SyntaxError.
JsonParse(s) ==
  IF Len(s) = 0 \/ ValueEnd(s, 1) # Len(s) + 1
  THEN [ok |-> FALSE, kind |-> "", m |-> ""]
  ELSE IF s[1] = "7" THEN [ok |-> TRUE, kind |-> "num", m |-> ""]
  ELSE IF s[1] = "[" THEN [ok |-> TRUE, kind |-> "arr", m |-> ""]
  ELSE [ok |-> TRUE, kind |-> "obj", m |-> IF Len(s) = 3 THEN s[2] ELSE ""]

\* raw.match(/\{[\s\S]*\}/): from the first "{" to the last "}" after it.
\* found = FALSE is the null result.
extractFirstJsonObject(raw) ==
  LET opens == {i \in 1..Len(raw) : raw[i] = "{"}
      first == IF opens = {} THEN 0
               ELSE CHOOSE i \in opens : \A j \in opens : i <= j
      closes == {i \in 1..Len(raw) : raw[i] = "}" /\ i > first}
      last == IF closes = {} THEN 0
              ELSE CHOOSE i \in closes : \A j \in closes : i >= j
  IN IF first = 0 \/ last = 0 THEN [found |-> FALSE, str |-> <<>>]
     ELSE [found |-> TRUE, str |-> SubSeq(raw, first, last)]

\* parseLlmContent: threw = TRUE when a JSON.parse inside it throws;
\* repairs counts the repair attempts made.
parseLlmContent(content) ==
  LET p == JsonParse(content) IN
  IF ~p.ok THEN [threw |-> TRUE, value |-> Absent, repairs |-> 0]
  ELSE IF SchemaOk(p.kind, p.m)
       THEN [threw |-> FALSE, value |-> SchemaData(p.m), repairs |-> 0]
  ELSE LET repaired == extractFirstJsonObject(content) IN
       IF ~repaired.found THEN [threw |-> FALSE, value |-> Absent, repairs |-> 0]
       ELSE LET q == JsonParse(repaired.str) IN
            IF ~q.ok THEN [threw |-> TRUE, value |-> Absent, repairs |-> 1]
            ELSE IF SchemaOk(q.kind, q.m)
                 THEN [threw |-> FALSE, value |-> SchemaData(q.m), repairs |-> 1]
                 ELSE [threw |-> FALSE, value |-> Absent, repairs |-> 1]

\* ------------------------------------------------------------- state store

\* A get by a key that the store does not know: it answers {}.
StoreGet_Unknown(map, phone) == EmptyObj

\* InMemoryStateStore.get: the stored record, {} for an unknown sender.
StoreGet(map, phone) == map[phone]

\* A merge in which the stored value of a key wins over the partial's.
MergedRecord_OldWins(map, phone, partial, stamp) ==
  LET old == map[phone] IN
    [k \in DOMAIN old \cup DOMAIN partial \cup {"updated_at"} |->
       IF k = "updated_at" THEN stamp
       ELSE IF k \in DOMAIN old THEN old[k]
       ELSE partial[k]]

\* A merge that drops a key given again with the value it already has.
MergedRecord_Toggle(map, phone, partial, stamp) ==
  LET old == map[phone]
      again == {k \in DOMAIN old \cap DOMAIN partial :
                  k # "updated_at" /\ old[k] = partial[k]}
  IN
    [k \in ((DOMAIN old \cup DOMAIN partial) \ again) \cup {"updated_at"} |->
       IF k = "updated_at" THEN stamp
       ELSE IF k \in DOMAIN partial THEN partial[k]
       ELSE old[k]]

\* The merged record of InMemoryStateStore.merge: the stored record, overlaid
\* by partial, overlaid by updated_at.
MergedRecord(map, phone, partial, stamp) ==
  LET old == map[phone] IN
    [k \in DOMAIN old \cup DOMAIN partial \cup {"updated_at"} |->
       IF k = "updated_at" THEN stamp
       ELSE IF k \in DOMAIN partial THEN partial[k]
       ELSE old[k]]

\* new Date().toISOString() of the clock value t: the clock reading as text.
ToISOString(t) == ToString(t)

\* A partial of the collected fields alone.
WebhookPartial_FieldsOnly(r) == r.fields_collected

\* The partial that POST /webhook merges: fields_collected overlaid by
\* last_intent and last_reply.
WebhookPartial(r) ==
  [k \in DOMAIN r.fields_collected \cup {"last_intent", "last_reply"} |->
     IF k = "last_intent" THEN r.intent
     ELSE IF k = "last_reply" THEN r.reply
     ELSE r.fields_collected[k]]

\* --------------------------------------------------------- dedup / rate guard

\* A sweep that already drops the entries as old as the retention window.
cleanupProcessedIds_AtBoundary(ids, now) ==
  [m \in Ids |->
     IF ids[m] # NoTime /\ now - ids[m] >= duplicateWindowMs THEN NoTime ELSE ids[m]]

\* cleanupProcessedIds: drops the entries older than the retention window.
cleanupProcessedIds(ids, now) ==
  [m \in Ids |->
     IF ids[m] # NoTime /\ now - ids[m] > duplicateWindowMs THEN NoTime ELSE ids[m]]

\* A rate check that opens a new window as soon as the old one is 60 s old.
RateResets_AtBoundary(rates, phone, now) ==
  \/ rates[phone] = NoRate
  \/ now - rates[phone].windowStart >= rateWindowMs

\* isRateLimited opens a new window for an unknown sender or an expired one.
RateResets(rates, phone, now) ==
  \/ rates[phone] = NoRate
  \/ now - rates[phone].windowStart > rateWindowMs

\* isRateLimited: the rate map it leaves.
RateAfter(rates, phone, now) ==
  [rates EXCEPT ![phone] =
     IF RateResets(rates, phone, now)
     THEN [count |-> 1, windowStart |-> now]
     ELSE [count |-> rates[phone].count + 1, windowStart |-> rates[phone].windowStart]]

\* A rate check that already rejects the message that reaches the quota.
isRateLimited_AtQuota(rates, phone, now) ==
  IF RateResets(rates, phone, now) THEN FALSE
  ELSE rates[phone].count + 1 >= rateLimitPerWindow

\* isRateLimited: its return value.
isRateLimited(rates, phone, now) ==
  IF RateResets(rates, phone, now) THEN FALSE
  ELSE rates[phone].count + 1 > rateLimitPerWindow

\* processedMessageIds.has(messageId)
HasId(ids, id) == ids[id] # NoTime

\* A handler that does not record the identifier.
RecordId_Skip(ids, id, now) == ids

\* processedMessageIds.set(messageId, now)
RecordId(ids, id, now) == [ids EXCEPT ![id] = now]

\* message.type !== "text" || !message.text?.body
NotText(m) == m.type # "text" \/ m.text = ""

\* A guard that looks at the kind of the message first.
GuardEffect_KindFirst(ids, rates, m, now) ==
  IF NotText(m)
  THEN [verdict |-> "non_text", ids |-> ids, rates |-> rates]
  ELSE IF HasId(ids, m.id)
  THEN [verdict |-> "duplicate", ids |-> ids, rates |-> rates]
  ELSE [verdict |-> IF isRateLimited(rates, m.from, now) THEN "rate_limited"
                    ELSE "accepted",
        ids |-> RecordId(ids, m.id, now),
        rates |-> RateAfter(rates, m.from, now)]

\* A guard that records the identifier only of a message within the quota.
GuardEffect_RecordOnPass(ids, rates, m, now) ==
  IF HasId(ids, m.id)
  THEN [verdict |-> "duplicate", ids |-> ids, rates |-> rates]
  ELSE [verdict |-> IF isRateLimited(rates, m.from, now) THEN "rate_limited"
                    ELSE IF NotText(m) THEN "non_text"
                    ELSE "accepted",
        ids |-> IF isRateLimited(rates, m.from, now) THEN ids
                ELSE RecordId(ids, m.id, now),
        rates |-> RateAfter(rates, m.from, now)]

\* The guard sequence of one loop iteration: duplicate check, recording of
\* the id, rate check, kind check.  The verdict and the maps it leaves.
GuardEffect(ids, rates, m, now) ==
  IF HasId(ids, m.id)
  THEN [verdict |-> "duplicate", ids |-> ids, rates |-> rates]
  ELSE [verdict |-> IF isRateLimited(rates, m.from, now) THEN "rate_limited"
                    ELSE IF NotText(m) THEN "non_text"
                    ELSE "accepted",
        ids |-> RecordId(ids, m.id, now),
        rates |-> RateAfter(rates, m.from, now)]

\* ----------------------------------------------------------- reply generator

Min(a, b) == IF a <= b THEN a ELSE b

\* A transport timeout that lies beyond the timeout of the race.
AxiosTimeout_Beyond(timeoutMs) == timeoutMs + 2000

\* The transport timeout that generateReply sets on the request.
AxiosTimeout(timeoutMs) == Min(timeoutMs, AxiosTimeoutCap)

\* The generation service's behaviour for one call: after latency ms it
\* fails (kind "error"), answers without string content ("nonstring") or
\* answers with the content string ("content").
\* The request promise of axios.post: it settles at time at; a call still
\* pending when the transport timeout elapses is rejected by axios.
RequestSettles(svc, timeoutMs) ==
  IF svc.latency < AxiosTimeout(timeoutMs)
  THEN [at |-> svc.latency, rejected |-> svc.kind = "error",
        cause |-> IF svc.kind = "error" THEN "transport" ELSE "none"]
  ELSE [at |-> AxiosTimeout(timeoutMs), rejected |-> TRUE, cause |-> "timeout"]

\* withTimeout: the set of settlements of the race between the promise and
\* the timer; both are possible when they are due at the same time.
withTimeout(p, timeoutMs) ==
  (IF p.at <= timeoutMs
   THEN {[rejected |-> p.rejected, cause |-> p.cause, by |-> "call"]} ELSE {})
  \cup
  (IF timeoutMs <= p.at
   THEN {[rejected |-> TRUE, cause |-> "timeout", by |-> "timer"]} ELSE {})

\* generateReply: the set of its results for one behaviour of the service.
\* threw = TRUE: the returned promise is rejected; otherwise value is the
\* LlmOutput or Absent (null).  cause names why no reply came.
generateReply(svc, timeoutMs) ==
  {IF w.rejected THEN [threw |-> TRUE, cause |-> w.cause, value |-> Absent, repairs |-> 0]
   ELSE IF svc.kind = "nonstring"
        THEN [threw |-> FALSE, cause |-> "nonstring", value |-> Absent, repairs |-> 0]
   ELSE LET r == parseLlmContent(svc.content) IN
        IF r.threw
        THEN [threw |-> FALSE, cause |-> "unparseable", value |-> Absent,
              repairs |-> r.repairs]
        ELSE [threw |-> FALSE,
              cause |-> IF r.value.present THEN "none" ELSE "invalid",
              value |-> r.value, repairs |-> r.repairs]
   : w \in withTimeout(RequestSettles(svc, timeoutMs), timeoutMs)}

\* -------------------------------------------------------------------- state

VARIABLES
  clock,                \* the wall clock (Date.now()), in ms
  ticks,                \* advances of the clock so far
  SIMULATE_ONLY,        \* env.SIMULATE_ONLY
  processedMessageIds,  \* message id -> first-seen time (NoTime: no entry)
  phoneRateMap,         \* phone -> {count, windowStart} (NoRate: no entry)
  stateMap,             \* InMemoryStateStore.map: phone -> ConversationState
  running,              \* the delivery whose handler holds the event loop, 0 if none
  pc,                   \* per delivery: where its POST /webhook handler stands
  len,                  \* per delivery: number of messages of its batch
  now,                  \* per delivery: the handler's const now
  message,              \* per delivery: the message of the current iteration
  currentState,         \* per delivery: the handler's const currentState
  llmResult,            \* per delivery: the handler's const llmResult
  resp,                 \* per delivery: HTTP status answered, 0 before
  cur,                  \* per delivery: what happened to its latest message
  trace,                \* per delivery: the ids of the messages begun, in order
  hist,                 \* per message id: what the server did for it, in total
  win,                  \* per phone: rate checks passed and failed in its window
  probe                 \* the reply generator run on its own: input and result

vars ==
  <<clock, ticks, SIMULATE_ONLY, processedMessageIds, phoneRateMap, stateMap,
    running, pc, len, now, message, currentState, llmResult, resp, cur, trace, hist,
    win, probe>>

shared == <<processedMessageIds, phoneRateMap, stateMap>>

MessageShapes ==
  {[type |-> "text", text |-> "hi"],     \* a text message
   [type |-> "text", text |-> ""],       \* type text without a text body
   [type |-> "image", text |-> ""]}      \* another kind of message

NoMessage == [id |-> 0, from |-> "", type |-> "", text |-> ""]

\* Behaviours of the generation service that the handler is run against.
WebhookContents ==
  {<<"{", "M_quote", "}">>, <<"{", "M_handoff", "}">>, <<"{", "M_HandOff", "}">>,
   <<"{", "M_noreply", "}">>, <<"x", "{", "M_quote", "}">>,
   <<"[", "{", "M_quote", "}", "]">>}

Latencies == {100, 9000}

Services ==
  {[latency |-> l, kind |-> k, content |-> <<>>] :
     l \in Latencies, k \in {"error", "nonstring"}}
  \cup {[latency |-> l, kind |-> "content", content |-> c] :
     l \in Latencies, c \in WebhookContents}

\* Between two requests the clock advances by one of these.  While a
\* handler is in flight it advances by a millisecond at most: every await
\* of a handler is bounded by a timeout far shorter than the two windows.
TimeSteps == {1, rateWindowMs, rateWindowMs + 1, duplicateWindowMs, duplicateWindowMs + 1}

\* What is recorded of the latest message of a delivery.
NoCur ==
  [id |-> 0, from |-> "",
   verdict |-> "",        \* duplicate, rate_limited, non_text or accepted
   recorded |-> 0,        \* the guard changed processedMessageIds
   rated |-> 0,           \* the guard changed phoneRateMap
   cause |-> "",          \* why the generation gave no reply ("none": it did)
   threw |-> FALSE,       \* generateReply rejected
   intent |-> "",         \* intent and reply of the generated reply
   reply |-> "",
   gens |-> 0,            \* generation calls issued for it
   merges |-> 0,          \* stateStore.merge calls for it
   merged |-> EmptyObj,   \* the record stateStore.merge returned
   sends |-> 0,           \* outbound sends issued for it
   to |-> "", body |-> "",\* recipient and body of the send
   sendOk |-> 0,          \* sends that succeeded and failed
   sendFailed |-> 0,
   escs |-> 0,            \* HUMAN_HANDOFF records logged for it
   escState |-> EmptyObj] \* the state carried by the HUMAN_HANDOFF record

\* What is recorded of a message id, over all deliveries.
NoHist ==
  [seen |-> 0,            \* deliveries of the id
   first |-> 0,           \* const now of the first and of the latest of them
   last |-> 0,
   passed |-> 0,          \* deliveries that passed the duplicate check
   limited |-> 0,         \* deliveries dropped as rate_limited
   accepted |-> 0,        \* deliveries that passed the whole guard
   gens |-> 0,            \* generation calls issued
   replies |-> 0,         \* generation calls that returned a reply
   merges |-> 0,          \* stateStore.merge calls
   sends |-> 0,           \* outbound sends issued
   sendOk |-> 0,          \* sends that succeeded and failed
   sendFailed |-> 0,
   escs |-> 0]            \* HUMAN_HANDOFF records logged

\* Message identifiers are opaque strings: a message that carries an
\* identifier never delivered before carries the least unused one.
InboundIds == {m \in Ids : hist[m].seen > 0 \/ m = 1 \/ hist[m - 1].seen > 0}

NoProbe == [phase |-> "off"]

\* The state after construction, the rate map apart.
InitBut ==
  /\ clock = 0
  /\ ticks = 0
  /\ processedMessageIds = [m \in Ids |-> NoTime]
  /\ stateMap = [p \in Phones |-> EmptyObj]
  /\ running = 0
  /\ pc = [d \in Deliveries |-> "idle"]
  /\ len = [d \in Deliveries |-> 0]
  /\ now = [d \in Deliveries |-> 0]
  /\ message = [d \in Deliveries |-> NoMessage]
  /\ currentState = [d \in Deliveries |-> EmptyObj]
  /\ llmResult = [d \in Deliveries |-> Absent]
  /\ resp = [d \in Deliveries |-> 0]
  /\ cur = [d \in Deliveries |-> NoCur]
  /\ trace = [d \in Deliveries |-> <<>>]
  /\ hist = [m \in Ids |-> NoHist]
  /\ probe = NoProbe

Init ==
  /\ InitBut
  /\ SIMULATE_ONLY \in BOOLEAN
  /\ phoneRateMap = [p \in Phones |-> NoRate]
  /\ win = [p \in Phones |-> [passed |-> 0, dropped |-> 0]]

\* ------------------------------------------------------------------ actions

\* No handler is between its start and its response.
NoneInFlight == \A d \in Deliveries : pc[d] \in {"idle", "done"}

\* A reading of the wall clock: it has advanced by dt since the last one.
ReadClock(dt) ==
  /\ dt = 0 \/ ticks < MaxTicks
  /\ clock' = clock + dt
  /\ ticks' = IF dt = 0 THEN ticks ELSE ticks + 1

\* The handler ends: the response is sent (500 by the error middleware
\* when the catch passed an error to next).  Its locals are gone.
Finish(d, status) ==
  /\ pc' = [pc EXCEPT ![d] = "done"]
  /\ resp' = [resp EXCEPT ![d] = status]
  /\ running' = 0
  /\ message' = [message EXCEPT ![d] = NoMessage]
  /\ currentState' = [currentState EXCEPT ![d] = EmptyObj]
  /\ llmResult' = [llmResult EXCEPT ![d] = Absent]

\* Messages of all the batches delivered so far.
RECURSIVE SumLen(_)
SumLen(D) ==
  IF D = {} THEN 0
  ELSE LET d == CHOOSE x \in D : TRUE IN len[d] + SumLen(D \ {d})
BatchTotal == SumLen(Deliveries)

\* POST /webhook up to the message loop: the SIMULATE_ONLY guard, the
\* payload validation, const now, cleanupProcessedIds.
WebhookStart(d, budget) ==
  /\ running = 0
  /\ pc[d] = "idle"
  /\ IF SIMULATE_ONLY
     THEN /\ Finish(d, 403)
          /\ UNCHANGED <<clock, ticks, shared, len, now>>
     ELSE \E valid \in BOOLEAN :
            IF ~valid
            THEN /\ Finish(d, 400)
                 /\ UNCHANGED <<clock, ticks, shared, len, now>>
            ELSE /\ \E n \in 0..MaxBatch :
                      /\ BatchTotal + n <= budget
                      /\ len' = [len EXCEPT ![d] = n]
                 /\ \E dt \in IF NoneInFlight THEN {0} \cup TimeSteps ELSE {0, 1} :
                      ReadClock(dt)
                 /\ now' = [now EXCEPT ![d] = clock']
                 /\ processedMessageIds' = cleanupProcessedIds(processedMessageIds, clock')
                 /\ pc' = [pc EXCEPT ![d] = "loop"]
                 /\ running' = d
                 /\ UNCHANGED <<phoneRateMap, stateMap, resp, message, currentState,
                                llmResult>>
  /\ UNCHANGED <<SIMULATE_ONLY, cur, trace, hist, win, probe>>

\* A handler that does not await the send: the loop goes on while the
\* request to the Meta API is pending.
maybeSendWhatsAppText_NoAwait(d, body, next, result, c) ==
  IF SIMULATE_ONLY
  THEN /\ Finish(d, 500)
       /\ cur' = [cur EXCEPT ![d] = c]
       /\ UNCHANGED hist
  ELSE /\ hist' = [hist EXCEPT ![message[d].id].sends = @ + 1]
       /\ cur' = [cur EXCEPT ![d] =
                    [c EXCEPT !.sends = @ + 1, !.to = message[d].from, !.body = body]]
       /\ pc' = [pc EXCEPT ![d] = "loop"]
       /\ running' = d
       /\ llmResult' = [llmResult EXCEPT ![d] = result]
       /\ UNCHANGED <<resp, message, currentState>>

\* maybeSendWhatsAppText up to its await: with SIMULATE_ONLY it throws, else
\* sendWhatsAppText issues the request to the Meta API.  result is the
\* handler's llmResult, c what is recorded of the message so far.
maybeSendWhatsAppText(d, body, next, result, c) ==
  IF SIMULATE_ONLY
  THEN /\ Finish(d, 500)
       /\ cur' = [cur EXCEPT ![d] = c]
       /\ UNCHANGED hist
  ELSE /\ hist' = [hist EXCEPT ![message[d].id].sends = @ + 1]
       /\ cur' = [cur EXCEPT ![d] =
                    [c EXCEPT !.sends = @ + 1, !.to = message[d].from, !.body = body]]
       /\ pc' = [pc EXCEPT ![d] = next]
       /\ running' = 0
       /\ llmResult' = [llmResult EXCEPT ![d] = result]
       /\ UNCHANGED <<resp, message, currentState>>

\* One iteration of the message loop up to its first await: the guard
\* sequence and, for an accepted message, the call of stateStore.get.  A
\* dropped message continues with the next iteration in the same run of
\* the event loop.
Guard(d) ==
  /\ running = d
  /\ pc[d] = "loop"
  /\ Len(trace[d]) < len[d]
  /\ \E id \in InboundIds, from \in Phones, shape \in MessageShapes :
       LET m == [id |-> id, from |-> from, type |-> shape.type, text |-> shape.text]
           e == GuardEffect(processedMessageIds, phoneRateMap, m, now[d])
           fresh == e.rates[from].windowStart # phoneRateMap[from].windowStart
       IN
       /\ message' = [message EXCEPT ![d] = m]
       /\ processedMessageIds' = e.ids
       /\ phoneRateMap' = e.rates
       /\ trace' = [trace EXCEPT ![d] = Append(@, id)]
       /\ cur' = [cur EXCEPT ![d] =
                    [NoCur EXCEPT !.id = id, !.from = from, !.verdict = e.verdict,
                       !.recorded = IF e.ids # processedMessageIds THEN 1 ELSE 0,
                       !.rated = IF e.rates # phoneRateMap THEN 1 ELSE 0]]
       /\ hist' = [hist EXCEPT ![id] =
                     [@ EXCEPT !.seen = @ + 1,
                        !.first = IF hist[id].seen = 0 THEN now[d] ELSE @,
                        !.last = now[d],
                        !.passed = IF e.verdict = "duplicate" THEN @ ELSE @ + 1,
                        !.limited = IF e.verdict = "rate_limited" THEN @ + 1 ELSE @,
                        !.accepted = IF e.verdict = "accepted" THEN @ + 1 ELSE @]]
       /\ win' = IF e.rates = phoneRateMap THEN win
                 ELSE [win EXCEPT ![from] =
                         [passed |-> (IF fresh THEN 0 ELSE @.passed)
                                       + (IF e.verdict = "rate_limited" THEN 0 ELSE 1),
                          dropped |-> (IF fresh THEN 0 ELSE @.dropped)
                                       + (IF e.verdict = "rate_limited" THEN 1 ELSE 0)]]
       /\ IF e.verdict = "accepted"
          THEN /\ currentState' = [currentState EXCEPT ![d] = StoreGet(stateMap, from)]
               /\ pc' = [pc EXCEPT ![d] = "await_get"]
               /\ running' = 0
          ELSE /\ currentState' = [currentState EXCEPT ![d] = EmptyObj]
               /\ UNCHANGED <<pc, running>>
       /\ llmResult' = [llmResult EXCEPT ![d] = Absent]
  /\ UNCHANGED <<clock, ticks, SIMULATE_ONLY, stateMap, len, now, resp, probe>>

\* The loop is over: res.status(200).
LoopEnd(d) ==
  /\ running = d
  /\ pc[d] = "loop"
  /\ Len(trace[d]) = len[d]
  /\ Finish(d, 200)
  /\ UNCHANGED <<clock, ticks, SIMULATE_ONLY, shared, len, now, cur, trace, hist,
                 win, probe>>

\* After await stateStore.get: generateReply is called and issues the
\* request to the generation service.
CallGenerate(d) ==
  /\ running = 0
  /\ pc[d] = "await_get"
  /\ hist' = [hist EXCEPT ![message[d].id].gens = @ + 1]
  /\ cur' = [cur EXCEPT ![d].gens = @ + 1]
  /\ pc' = [pc EXCEPT ![d] = "await_generate"]
  /\ UNCHANGED <<clock, ticks, SIMULATE_ONLY, shared, running, len, now, message,
                 currentState, llmResult, resp, trace, win, probe>>

\* A handler that takes no result for absent.
IsAbsent_Never(r) == FALSE

\* if (!llmResult) in POST /webhook
IsAbsent(r) == ~r.present

\* A handler that calls generateReply again when the call was rejected.
GenerateSettles_Retry(d) ==
  /\ running = 0
  /\ pc[d] = "await_generate"
  /\ \E svc \in Services : \E g \in generateReply(svc, WebhookTimeoutMs) :
       LET c == [cur[d] EXCEPT !.cause = g.cause, !.threw = g.threw,
                   !.intent = g.value.intent, !.reply = g.value.reply]
       IN
       IF g.threw
       THEN /\ pc' = [pc EXCEPT ![d] = "await_get"]
            /\ cur' = [cur EXCEPT ![d] = c]
            /\ UNCHANGED <<clock, ticks, stateMap, hist, running, resp, message,
                           currentState, llmResult>>
       ELSE IF IsAbsent(g.value)
       THEN /\ maybeSendWhatsAppText(d, FALLBACK_BODY, "await_send_fallback", g.value, c)
            /\ UNCHANGED <<clock, ticks, stateMap>>
       ELSE \E dt \in {0, 1} :
            /\ ReadClock(dt)
            /\ LET merged == MergedRecord(stateMap, message[d].from,
                                WebhookPartial(g.value), ToISOString(clock'))
               IN /\ stateMap' = [stateMap EXCEPT ![message[d].from] = merged]
                  /\ cur' = [cur EXCEPT ![d] =
                               [c EXCEPT !.merged = merged, !.merges = @ + 1]]
            /\ hist' = [hist EXCEPT ![message[d].id].merges = @ + 1,
                                    ![message[d].id].replies = @ + 1]
            /\ llmResult' = [llmResult EXCEPT ![d] = g.value]
            /\ pc' = [pc EXCEPT ![d] = "await_merge"]
            /\ UNCHANGED <<running, resp, message, currentState>>
  /\ UNCHANGED <<SIMULATE_ONLY, processedMessageIds, phoneRateMap, len, now, trace,
                 win, probe>>

\* A handler that merges into the state it read before the generation call
\* instead of the record stored at merge time.
GenerateSettles_StaleMerge(d) ==
  /\ running = 0
  /\ pc[d] = "await_generate"
  /\ \E svc \in Services : \E g \in generateReply(svc, WebhookTimeoutMs) :
       LET c == [cur[d] EXCEPT !.cause = g.cause, !.threw = g.threw,
                   !.intent = g.value.intent, !.reply = g.value.reply]
       IN
       IF g.threw
       THEN /\ Finish(d, 500)
            /\ cur' = [cur EXCEPT ![d] = c]
            /\ UNCHANGED <<clock, ticks, stateMap, hist>>
       ELSE IF IsAbsent(g.value)
       THEN /\ maybeSendWhatsAppText(d, FALLBACK_BODY, "await_send_fallback", g.value, c)
            /\ UNCHANGED <<clock, ticks, stateMap>>
       ELSE \E dt \in {0, 1} :
            /\ ReadClock(dt)
            /\ LET merged == MergedRecord([stateMap EXCEPT ![message[d].from] =
                                              currentState[d]], message[d].from,
                                WebhookPartial(g.value), ToISOString(clock'))
               IN /\ stateMap' = [stateMap EXCEPT ![message[d].from] = merged]
                  /\ cur' = [cur EXCEPT ![d] =
                               [c EXCEPT !.merged = merged, !.merges = @ + 1]]
            /\ hist' = [hist EXCEPT ![message[d].id].merges = @ + 1,
                                    ![message[d].id].replies = @ + 1]
            /\ llmResult' = [llmResult EXCEPT ![d] = g.value]
            /\ pc' = [pc EXCEPT ![d] = "await_merge"]
            /\ UNCHANGED <<running, resp, message, currentState>>
  /\ UNCHANGED <<SIMULATE_ONLY, processedMessageIds, phoneRateMap, len, now, trace,
                 win, probe>>

\* generateReply settles.  Rejected: the handler's catch passes the error on.
\* Absent: the fallback is sent.  Present: the state is merged.
GenerateSettles(d) ==
  /\ running = 0
  /\ pc[d] = "await_generate"
  /\ \E svc \in Services : \E g \in generateReply(svc, WebhookTimeoutMs) :
       LET c == [cur[d] EXCEPT !.cause = g.cause, !.threw = g.threw,
                   !.intent = g.value.intent, !.reply = g.value.reply]
       IN
       IF g.threw
       THEN /\ Finish(d, 500)
            /\ cur' = [cur EXCEPT ![d] = c]
            /\ UNCHANGED <<clock, ticks, stateMap, hist>>
       ELSE IF IsAbsent(g.value)
       THEN /\ maybeSendWhatsAppText(d, FALLBACK_BODY, "await_send_fallback", g.value, c)
            /\ UNCHANGED <<clock, ticks, stateMap>>
       ELSE \E dt \in {0, 1} :
            /\ ReadClock(dt)
            /\ LET merged == MergedRecord(stateMap, message[d].from,
                                WebhookPartial(g.value), ToISOString(clock'))
               IN /\ stateMap' = [stateMap EXCEPT ![message[d].from] = merged]
                  /\ cur' = [cur EXCEPT ![d] =
                               [c EXCEPT !.merged = merged, !.merges = @ + 1]]
            /\ hist' = [hist EXCEPT ![message[d].id].merges = @ + 1,
                                    ![message[d].id].replies = @ + 1]
            /\ llmResult' = [llmResult EXCEPT ![d] = g.value]
            /\ pc' = [pc EXCEPT ![d] = "await_merge"]
            /\ UNCHANGED <<running, resp, message, currentState>>
  /\ UNCHANGED <<SIMULATE_ONLY, processedMessageIds, phoneRateMap, len, now, trace,
                 win, probe>>

\* String.prototype.toLowerCase on the intent labels.
toLowerCase(str) ==
  CASE str = "HandOff" -> "handoff"
    [] str = "HANDOFF" -> "handoff"
    [] OTHER -> str

\* A dispatch that takes every intent for the escalation.
IsHandoff_Always(intent) == TRUE

\* llmResult.intent.toLowerCase() === "handoff"
IsHandoff(intent) == toLowerCase(intent) = "handoff"

\* After await stateStore.merge: the intent dispatch up to the send.
Dispatch(d) ==
  /\ running = 0
  /\ pc[d] = "await_merge"
  /\ IF IsHandoff(llmResult[d].intent)
     THEN maybeSendWhatsAppText(d, HANDOFF_ACK_BODY, "await_send_handoff", llmResult[d],
                                cur[d])
     ELSE maybeSendWhatsAppText(d, llmResult[d].reply, "await_send_reply", llmResult[d],
                                cur[d])
  /\ UNCHANGED <<clock, ticks, SIMULATE_ONLY, shared, len, now, trace, win, probe>>

\* The outbound send settles.  Failed: the error leaves the loop through
\* the handler's catch.  Succeeded: fallback and reply continue the loop;
\* handoff calls stateStore.get for the HUMAN_HANDOFF record.
SendSettles(d) ==
  /\ running = 0
  /\ pc[d] \in {"await_send_fallback", "await_send_handoff", "await_send_reply"}
  /\ \E ok \in BOOLEAN :
       IF ~ok
       THEN /\ Finish(d, 500)
            /\ hist' = [hist EXCEPT ![message[d].id].sendFailed = @ + 1]
            /\ cur' = [cur EXCEPT ![d].sendFailed = @ + 1]
       ELSE /\ hist' = [hist EXCEPT ![message[d].id].sendOk = @ + 1]
            /\ IF pc[d] = "await_send_handoff"
               THEN /\ cur' = [cur EXCEPT ![d].sendOk = @ + 1,
                                 ![d].escState = StoreGet(stateMap, message[d].from)]
                    /\ pc' = [pc EXCEPT ![d] = "await_get_handoff"]
                    /\ UNCHANGED running
               ELSE /\ cur' = [cur EXCEPT ![d].sendOk = @ + 1]
                    /\ pc' = [pc EXCEPT ![d] = "loop"]
                    /\ running' = d
            /\ UNCHANGED <<resp, message, currentState, llmResult>>
  /\ UNCHANGED <<clock, ticks, SIMULATE_ONLY, shared, len, now, trace, win, probe>>

\* After await stateStore.get in the handoff branch: the HUMAN_HANDOFF record
\* is logged and the loop continues.
LogHandoff(d) ==
  /\ running = 0
  /\ pc[d] = "await_get_handoff"
  /\ hist' = [hist EXCEPT ![message[d].id].escs = @ + 1]
  /\ cur' = [cur EXCEPT ![d].escs = @ + 1]
  /\ pc' = [pc EXCEPT ![d] = "loop"]
  /\ running' = d
  /\ UNCHANGED <<clock, ticks, SIMULATE_ONLY, shared, len, now, message,
                 currentState, llmResult, resp, trace, win, probe>>

Steps(d) ==
  \/ Guard(d)
  \/ LoopEnd(d)
  \/ CallGenerate(d)
  \/ GenerateSettles(d)
  \/ Dispatch(d)
  \/ SendSettles(d)
  \/ LogHandoff(d)

\* Deliveries are taken in the order of their numbers.
InOrder(d) == \A e \in Deliveries : e < d => pc[e] # "idle"

\* Deliveries that may overlap: a request may arrive at every await of
\* another handler.
Next ==
  \/ \E d \in Deliveries : InOrder(d) /\ WebhookStart(d, MaxMsgs)
  \/ \E d \in Deliveries : Steps(d)

Spec == Init /\ [][Next]_vars

\* One delivery with a batch of up to MaxBatch messages.
NextBatch ==
  \/ WebhookStart(1, MaxBatch)
  \/ Steps(1)

SpecBatch == Init /\ [][NextBatch]_vars

\* The server after earlier traffic: one sender has already had rate checks
\* in the window that began at time 0, up to RateHeadroom short of the
\* quota, for messages (of another kind than text, with other identifiers)
\* that are not delivered again.
InitRate ==
  /\ InitBut
  /\ SIMULATE_ONLY = FALSE
  /\ \E c \in (rateLimitPerWindow - RateHeadroom)..rateLimitPerWindow :
       /\ phoneRateMap =
            [p \in Phones |-> IF p = "905550001"
                              THEN [count |-> c, windowStart |-> 0] ELSE NoRate]
       /\ win = [p \in Phones |-> IF p = "905550001"
                                   THEN [passed |-> c, dropped |-> 0]
                                   ELSE [passed |-> 0, dropped |-> 0]]

SpecRate == InitRate /\ [][Next]_vars

\* ------------------------------------------- the reply generator on its own

ParseTokens == {"{", "}", "[", "]", ",", "7", "x", "M_quote", "M_noreply"}

RECURSIVE SeqsUpTo(_, _)
SeqsUpTo(S, n) ==
  IF n = 0 THEN {<<>>}
  ELSE LET shorter == SeqsUpTo(S, n - 1) IN
         shorter \cup {Append(q, x) : q \in shorter, x \in S}

GenServices ==
  {[latency |-> l, kind |-> k, content |-> <<>>] :
     l \in Latencies, k \in {"error", "nonstring"}}
  \cup {[latency |-> l, kind |-> "content", content |-> c] :
     l \in Latencies, c \in SeqsUpTo(ParseTokens, MaxContentLen)}

\* generateReply is called against one behaviour of the generation service.
GenCall ==
  /\ probe.phase = "off"
  /\ \E svc \in GenServices :
       probe' = [phase |-> "called", svc |-> svc]
  /\ UNCHANGED <<clock, ticks, SIMULATE_ONLY, shared, running, pc, len, now, message,
                 currentState, llmResult, resp, cur, trace, hist, win>>

\* The call settles: generateReply returns or rejects.
GenReturn ==
  /\ probe.phase = "called"
  /\ \E g \in generateReply(probe.svc, WebhookTimeoutMs) :
       probe' = [phase |-> "settled", svc |-> probe.svc, result |-> g]
  /\ UNCHANGED <<clock, ticks, SIMULATE_ONLY, shared, running, pc, len, now, message,
                 currentState, llmResult, resp, cur, trace, hist, win>>

NextGen == GenCall \/ GenReturn

InitGen == Init /\ SIMULATE_ONLY = FALSE

SpecGen == InitGen /\ [][NextGen]_vars

\* ------------------------------------------------ the state store on its own

\* Keys and values of the partials merged into the store.
StoreKeys == {"usage", "quantity", "updated_at"}
StoreValues == {"a", "b"}
StorePartials == UNION {[S -> StoreValues] : S \in SUBSET StoreKeys}

\* What is recorded of the calls of the store: the latest merge (sender,
\* partial, the record before, the record returned, the time stamp, and
\* whether the merge before it had the same sender and partial) and the
\* latest get.
NoStoreProbe ==
  [phase |-> "off", phone |-> "", partial |-> EmptyObj, before |-> EmptyObj,
   returned |-> EmptyObj, stamp |-> "", repeated |-> FALSE,
   gotPhone |-> "", got |-> EmptyObj]

\* stateStore.merge(phone, partial)
StoreMergeCall ==
  \E ph \in Phones, p \in StorePartials, dt \in {0, 1} :
    /\ ReadClock(dt)
    /\ LET merged == MergedRecord(stateMap, ph, p, ToISOString(clock'))
           base == IF probe.phase = "off" THEN NoStoreProbe ELSE probe
       IN /\ stateMap' = [stateMap EXCEPT ![ph] = merged]
          /\ probe' = [base EXCEPT !.phase = "merged", !.phone = ph, !.partial = p,
                         !.before = stateMap[ph], !.returned = merged,
                         !.stamp = ToISOString(clock'),
                         !.repeated = (base.phase # "off" /\ base.phone = ph
                                         /\ base.partial = p),
                         !.gotPhone = "", !.got = EmptyObj]
    /\ UNCHANGED <<SIMULATE_ONLY, processedMessageIds, phoneRateMap, running, pc, len,
                   now, message, currentState, llmResult, resp, cur, trace, hist, win>>

\* stateStore.get(phone)
StoreGetCall ==
  \E ph \in Phones :
    /\ LET base == IF probe.phase = "off" THEN NoStoreProbe ELSE probe
       IN probe' = [base EXCEPT !.phase = "got", !.gotPhone = ph,
                      !.got = StoreGet(stateMap, ph)]
    /\ UNCHANGED <<clock, ticks, SIMULATE_ONLY, shared, running, pc, len, now, message,
                   currentState, llmResult, resp, cur, trace, hist, win>>

NextStore == StoreMergeCall \/ StoreGetCall

SpecStore == InitGen /\ [][NextStore]_vars

\* ------------------------------------------- POST /simulate and POST /send

\* fallbackSimulate()
fallbackSimulate ==
  [reply |-> "Anladim. Hangi urun icin kullanacaksiniz ...", intent |-> "qualify",
   fields_collected |-> {}, fields_missing |-> <<"usage", "size">>,
   notes_for_human |-> "LLM failed or timed out"]

\* The output POST /simulate builds of a generated reply: fields_collected
\* are the keys only.  (No modelled content gives fields_missing: the
\* schema's default, the empty list.)
SimulateOutput(r) ==
  [reply |-> r.reply, intent |-> r.intent,
   fields_collected |-> DOMAIN r.fields_collected, fields_missing |-> <<>>,
   notes_for_human |-> r.notes_for_human]

\* A POST /simulate that merges whatever the generation gave.
SimulateMerges_Always(r) == TRUE

\* if (llmResult) in POST /simulate: the state is merged.
SimulateMerges(r) == r.present

\* A server that lets outbound calls through whatever its configuration.
OutboundBlocked_Never == FALSE

\* if (env.SIMULATE_ONLY) of POST /send and of maybeSendWhatsAppText
OutboundBlocked == SIMULATE_ONLY

\* What is recorded of one request to POST /simulate or POST /send, or of
\* one call of maybeSendWhatsAppText.
NoRequest ==
  [phase |-> "off", endpoint |-> "", from |-> "",
   state |-> EmptyObj,      \* the record stateStore.get returned
   result |-> [threw |-> FALSE, cause |-> "", value |-> Absent, repairs |-> 0],
   status |-> 0,            \* HTTP status answered
   out |-> SimulateOutput(Absent),  \* the body answered by POST /simulate
   threw |-> FALSE,         \* maybeSendWhatsAppText threw before sending
   sent |-> 0,              \* calls of the Meta API issued
   gens |-> 0,              \* generation calls issued
   merges |-> 0]            \* stateStore.merge calls

\* No request is being handled.
Idle == NoneInFlight /\ probe.phase \in {"off", "answered"}

\* POST /simulate up to its first await: input validation, stateStore.get.
SimulateStart ==
  /\ Idle
  /\ \E valid \in BOOLEAN :
       IF ~valid
       THEN probe' = [NoRequest EXCEPT !.phase = "answered", !.endpoint = "simulate",
                        !.status = 400]
       ELSE \E from \in Phones :
              probe' = [NoRequest EXCEPT !.phase = "sim_await_get",
                          !.endpoint = "simulate", !.from = from,
                          !.state = StoreGet(stateMap, from)]
  /\ UNCHANGED <<clock, ticks, SIMULATE_ONLY, shared, running, pc, len, now, message,
                 currentState, llmResult, resp, cur, trace, hist, win>>

\* After await stateStore.get: generateReply is called.
SimulateCallGenerate ==
  /\ probe.phase = "sim_await_get"
  /\ probe' = [probe EXCEPT !.phase = "sim_await_generate", !.gens = @ + 1]
  /\ UNCHANGED <<clock, ticks, SIMULATE_ONLY, shared, running, pc, len, now, message,
                 currentState, llmResult, resp, cur, trace, hist, win>>

\* generateReply settles.  Rejected: the catch answers the fallback.  Absent:
\* the fallback is the output.  Present: the output is built and validated
\* and the state merged.
SimulateGenerateSettles ==
  /\ probe.phase = "sim_await_generate"
  /\ \E svc \in Services : \E g \in generateReply(svc, WebhookTimeoutMs) :
       IF g.threw
       THEN /\ probe' = [probe EXCEPT !.phase = "answered", !.result = g,
                           !.status = 200, !.out = fallbackSimulate]
            /\ UNCHANGED <<clock, ticks, stateMap>>
       ELSE LET output == IF g.value.present THEN SimulateOutput(g.value)
                          ELSE fallbackSimulate
            IN IF SimulateMerges(g.value)
               THEN \E dt \in {0, 1} :
                      /\ ReadClock(dt)
                      /\ stateMap' =
                           [stateMap EXCEPT ![probe.from] =
                              MergedRecord(stateMap, probe.from, WebhookPartial(g.value),
                                           ToISOString(clock'))]
                      /\ probe' = [probe EXCEPT !.phase = "sim_await_merge",
                                     !.result = g, !.out = output, !.merges = @ + 1]
               ELSE /\ probe' = [probe EXCEPT !.phase = "answered", !.result = g,
                                   !.status = 200, !.out = output]
                    /\ UNCHANGED <<clock, ticks, stateMap>>
  /\ UNCHANGED <<SIMULATE_ONLY, processedMessageIds, phoneRateMap, running, pc, len, now,
                 message, currentState, llmResult, resp, cur, trace, hist, win>>

\* After await stateStore.merge: res.status(200).json(validatedOutput).
SimulateRespond ==
  /\ probe.phase = "sim_await_merge"
  /\ probe' = [probe EXCEPT !.phase = "answered", !.status = 200]
  /\ UNCHANGED <<clock, ticks, SIMULATE_ONLY, shared, running, pc, len, now, message,
                 currentState, llmResult, resp, cur, trace, hist, win>>

\* POST /send up to its await: the SIMULATE_ONLY guard, input validation,
\* maybeSendWhatsAppText up to the call of the Meta API.
SendStart ==
  /\ Idle
  /\ IF OutboundBlocked
     THEN probe' = [NoRequest EXCEPT !.phase = "answered", !.endpoint = "send",
                      !.status = 403]
     ELSE \E valid \in BOOLEAN :
            IF ~valid
            THEN probe' = [NoRequest EXCEPT !.phase = "answered", !.endpoint = "send",
                             !.status = 400]
            ELSE IF OutboundBlocked
            THEN probe' = [NoRequest EXCEPT !.phase = "answered", !.endpoint = "send",
                             !.status = 500, !.threw = TRUE]
            ELSE probe' = [NoRequest EXCEPT !.phase = "send_await", !.endpoint = "send",
                             !.sent = 1]
  /\ UNCHANGED <<clock, ticks, SIMULATE_ONLY, shared, running, pc, len, now, message,
                 currentState, llmResult, resp, cur, trace, hist, win>>

\* The Meta call of POST /send settles: 200, or 500 by the error middleware.
SendRespond ==
  /\ probe.phase = "send_await"
  /\ \E ok \in BOOLEAN :
       probe' = [probe EXCEPT !.phase = "answered", !.status = IF ok THEN 200 ELSE 500]
  /\ UNCHANGED <<clock, ticks, SIMULATE_ONLY, shared, running, pc, len, now, message,
                 currentState, llmResult, resp, cur, trace, hist, win>>

\* maybeSendWhatsAppText called on its own: it throws, or calls the Meta API.
MaybeSendCall ==
  /\ Idle
  /\ probe' = [NoRequest EXCEPT !.phase = "answered", !.endpoint = "maybeSend",
                 !.threw = OutboundBlocked,
                 !.sent = IF OutboundBlocked THEN 0 ELSE 1]
  /\ UNCHANGED <<clock, ticks, SIMULATE_ONLY, shared, running, pc, len, now, message,
                 currentState, llmResult, resp, cur, trace, hist, win>>

\* POST /simulate, one request at a time.
NextSimulate ==
  \/ SimulateStart
  \/ SimulateCallGenerate
  \/ SimulateGenerateSettles
  \/ SimulateRespond

SpecSimulate == Init /\ [][NextSimulate]_vars

\* The endpoints that send: POST /send and POST /webhook (one delivery of
\* at most one message), one request at a time, and maybeSendWhatsAppText.
NextOutbound ==
  \/ probe.phase \in {"off", "answered"} /\ WebhookStart(1, 1)
  \/ Steps(1)
  \/ SendStart
  \/ SendRespond
  \/ MaybeSendCall

SpecOutbound == Init /\ [][NextOutbound]_vars

\* ------------------------------------------------ the race of withTimeout

RaceTimeouts == {5000, AxiosTimeoutCap, WebhookTimeoutMs, 10000}
RaceLatencies == {100, 5000, AxiosTimeoutCap, 7950, WebhookTimeoutMs, 9000, 12000}

\* The promise withTimeout returns: pending, or settled with its outcome.
PendingPromise == [state |-> "pending", rejected |-> FALSE, cause |-> "", by |-> ""]

\* resolve and reject of a promise that always take the latest settlement.
SettleOnce_Last(outer, new) == new

\* resolve and reject of a promise: only the first call settles it.
SettleOnce(outer, new) == IF outer.state = "pending" THEN new ELSE outer

\* The race once begun: the promise p races a timer of timeoutMs.
RaceBegun(via, svc, timeoutMs, p) ==
  [phase |-> "racing", via |-> via, svc |-> svc, timeoutMs |-> timeoutMs,
   axios |-> IF via = "generateReply" THEN AxiosTimeout(timeoutMs) ELSE 0,
   request |-> p,
   inner |-> "pending",     \* the promise p: pending or settled
   timer |-> "armed",       \* the timer: armed, fired or cleared
   outer |-> PendingPromise,
   first |-> "",            \* which of the two came first: call or timer
   settlements |-> 0]       \* changes of the returned promise

\* generateReply up to its await: the request is issued with the transport
\* timeout and handed to withTimeout.
RaceCallGenerate ==
  /\ probe.phase = "off"
  /\ \E t \in RaceTimeouts, l \in RaceLatencies, k \in {"error", "nonstring"} :
       LET svc == [latency |-> l, kind |-> k, content |-> <<>>] IN
         probe' = RaceBegun("generateReply", svc, t, RequestSettles(svc, t))
  /\ UNCHANGED <<clock, ticks, SIMULATE_ONLY, shared, running, pc, len, now, message,
                 currentState, llmResult, resp, cur, trace, hist, win>>

\* withTimeout called with a promise of its own that settles at any time.
RaceCallDirect ==
  /\ probe.phase = "off"
  /\ \E t \in RaceTimeouts, l \in RaceLatencies, rej \in BOOLEAN :
       LET svc == [latency |-> l, kind |-> IF rej THEN "error" ELSE "nonstring",
                   content |-> <<>>]
       IN probe' = RaceBegun("withTimeout", svc, t,
                             [at |-> l, rejected |-> rej,
                              cause |-> IF rej THEN "transport" ELSE "none"])
  /\ UNCHANGED <<clock, ticks, SIMULATE_ONLY, shared, running, pc, len, now, message,
                 currentState, llmResult, resp, cur, trace, hist, win>>

\* The callback of setTimeout runs: reject.  It is due at timeoutMs, so
\* not before a promise that settles sooner; a cleared timer never runs.
RaceTimerFires ==
  /\ probe.phase = "racing"
  /\ probe.timer = "armed"
  /\ probe.inner = "pending"
  /\ probe.timeoutMs <= probe.request.at
  /\ LET outer == SettleOnce(probe.outer,
                     [state |-> "settled", rejected |-> TRUE, cause |-> "timeout",
                      by |-> "timer"])
     IN probe' = [probe EXCEPT !.timer = "fired", !.outer = outer,
                    !.first = IF @ = "" THEN "timer" ELSE @,
                    !.settlements = IF outer # probe.outer THEN @ + 1 ELSE @]
  /\ UNCHANGED <<clock, ticks, SIMULATE_ONLY, shared, running, pc, len, now, message,
                 currentState, llmResult, resp, cur, trace, hist, win>>

\* The promise settles: its then or catch handler clears the timer and
\* resolves or rejects.  It is due at request.at, so not before a timer
\* that is due sooner.
RaceRequestSettles ==
  /\ probe.phase = "racing"
  /\ probe.inner = "pending"
  /\ probe.timer = "armed" => probe.request.at <= probe.timeoutMs
  /\ LET outer == SettleOnce(probe.outer,
                     [state |-> "settled", rejected |-> probe.request.rejected,
                      cause |-> probe.request.cause, by |-> "call"])
     IN probe' = [probe EXCEPT !.inner = "settled",
                    !.timer = IF @ = "armed" THEN "cleared" ELSE @,
                    !.outer = outer,
                    !.first = IF @ = "" THEN "call" ELSE @,
                    !.settlements = IF outer # probe.outer THEN @ + 1 ELSE @]
  /\ UNCHANGED <<clock, ticks, SIMULATE_ONLY, shared, running, pc, len, now, message,
                 currentState, llmResult, resp, cur, trace, hist, win>>

NextRace ==
  \/ RaceCallGenerate
  \/ RaceCallDirect
  \/ RaceTimerFires
  \/ RaceRequestSettles

SpecRace == InitGen /\ [][NextRace]_vars

\* -------------------------------------------------------------- properties

\* C1 (as stated): an accepted message delivered twice within the retention
\* window has, when all handlers have answered without error, exactly one
\* outbound send and exactly one state merge.
C1_ExactlyOneSendAndMerge ==
  \A m \in Ids :
    (/\ NoneInFlight
     /\ \A d \in Deliveries : resp[d] # 500
     /\ hist[m].seen >= 2
     /\ hist[m].last - hist[m].first <= duplicateWindowMs
     /\ hist[m].accepted >= 1)
    => hist[m].sends = 1 /\ hist[m].merges = 1

\* C1: for a message identifier delivered twice within the retention window
\* only the first occurrence passes the duplicate check; the two together
\* have at most one generation call, one outbound send and one state merge,
\* the second has none of them, and there is exactly one send and one merge
\* when the generation returned a reply.
C1_Idempotent ==
  \A m \in Ids :
    (hist[m].seen >= 2 /\ hist[m].last - hist[m].first <= duplicateWindowMs)
    => /\ hist[m].passed = 1
       /\ hist[m].gens <= 1
       /\ hist[m].sends <= 1
       /\ hist[m].merges <= 1
       /\ \A d \in Deliveries :
            (cur[d].id = m /\ cur[d].verdict = "duplicate")
            => /\ cur[d].gens = 0
               /\ cur[d].sends = 0
               /\ cur[d].merges = 0
               /\ pc[d] \in {"loop", "done"}
       /\ (NoneInFlight /\ hist[m].replies = 1)
          => hist[m].sends = 1 /\ hist[m].merges = 1

\* The same identifier in two batches, the first answered with a reply.
C1_Witness ==
  \E m \in Ids :
    /\ trace[1] = <<m>>
    /\ trace[2] = <<m>>
    /\ now[2] - now[1] <= duplicateWindowMs
    /\ NoneInFlight
    /\ cur[2].verdict = "duplicate"
    /\ hist[m].replies = 1
    /\ hist[m].sends = 1
    /\ hist[m].merges = 1

\* C2: within one rate window of a sender at most rateLimitPerWindow messages
\* pass the rate check, a message is dropped only after exactly that many
\* have passed, and a message dropped as rate_limited has no generation
\* call, no send and no merge.
C2_Quota ==
  /\ \A p \in Phones :
       /\ win[p].passed + win[p].dropped = phoneRateMap[p].count
       /\ win[p].passed <= rateLimitPerWindow
       /\ win[p].dropped > 0 => win[p].passed = rateLimitPerWindow
  /\ \A d \in Deliveries :
       cur[d].verdict = "rate_limited"
       => /\ cur[d].gens = 0
          /\ cur[d].sends = 0
          /\ cur[d].merges = 0
          /\ pc[d] \in {"loop", "done"}

\* The sender's quota is used up and a further message of the window is dropped.
C2_Witness ==
  /\ win["905550001"].passed = rateLimitPerWindow
  /\ win["905550001"].dropped >= 1
  /\ \E d \in Deliveries :
       /\ cur[d].verdict = "rate_limited"
       /\ cur[d].from = "905550001"
       /\ now[d] - phoneRateMap["905550001"].windowStart <= rateWindowMs

\* C3 (as stated): whatever made the generation fail, generateReply returns
\* absent and does not raise.
C3_AbsentNeverRaises ==
  (probe.phase = "settled" /\ probe.result.cause # "none")
  => ~probe.result.threw /\ probe.result.value = Absent

\* C4 (as stated): an accepted message whose generation call exceeds the
\* timeout budget is answered with the fallback message, and nothing is merged.
C4_TimeoutSendsFallback ==
  \A d \in Deliveries :
    (cur[d].cause = "timeout" /\ pc[d] \in {"loop", "done"})
    => /\ cur[d].sends = 1
       /\ cur[d].body = FALLBACK_BODY
       /\ cur[d].to = cur[d].from
       /\ cur[d].merges = 0

\* C5 (as stated): in a batch of three messages, when the send of the first
\* succeeded and the send of the second failed, the third is processed too.
C5_FailureDoesNotAbortBatch ==
  (/\ pc[1] = "done"
   /\ len[1] = 3
   /\ Len(trace[1]) >= 2
   /\ trace[1][1] # trace[1][2]
   /\ hist[trace[1][1]].sendOk = 1
   /\ hist[trace[1][2]].sendFailed = 1)
  => Len(trace[1]) = 3

\* C6 (as stated): a message whose generated reply has the intent handoff, in
\* any letter case, is answered with the fixed acknowledgement and has exactly
\* one HUMAN_HANDOFF record once its processing has ended.
C6_HandoffAckAndOneRecord ==
  \A d \in Deliveries :
    (cur[d].cause = "none" /\ IsHandoff(cur[d].intent) /\ pc[d] \in {"loop", "done"})
    => /\ cur[d].sends = 1
       /\ cur[d].body = HANDOFF_ACK_BODY
       /\ cur[d].escs = 1

\* C7 (as stated): content whose span from the first "{" to the last "}" is a
\* schema-valid JSON object yields a present reply, also when the content as
\* a whole does not parse.
C7_RepairRecovers ==
  (probe.phase = "settled" /\ probe.svc.kind = "content" /\ ~probe.result.threw)
  => LET o == extractFirstJsonObject(probe.svc.content) IN
       (/\ o.found
        /\ JsonParse(o.str).ok
        /\ SchemaOk(JsonParse(o.str).kind, JsonParse(o.str).m))
       => probe.result.value.present

C9_RateLimitedIdConsumed ==
  /\ \A d \in Deliveries :
       /\ cur[d].verdict = "rate_limited" => cur[d].recorded = 1
       /\ cur[d].verdict = "duplicate" => cur[d].rated = 0
       /\ (cur[d].id # 0 /\ cur[d].verdict # "duplicate") => cur[d].rated = 1
  /\ \A m \in Ids :
       /\ hist[m].seen >= 1 => hist[m].passed >= 1
       /\ (hist[m].limited >= 1 /\ hist[m].last - hist[m].first <= duplicateWindowMs)
          => hist[m].passed = 1 /\ hist[m].limited = 1

\* An identifier dropped as rate_limited is delivered again after the
\* sender's rate window has expired, and is a duplicate.
C9_Witness ==
  \E m \in Ids, d \in Deliveries :
    /\ hist[m].limited = 1
    /\ hist[m].seen = 2
    /\ cur[d].id = m
    /\ cur[d].from = "905550001"
    /\ cur[d].verdict = "duplicate"
    /\ now[d] - phoneRateMap["905550001"].windowStart > rateWindowMs
    /\ now[d] - hist[m].first <= duplicateWindowMs

\* C10: a message whose generated reply has another intent than handoff has,
\* once dispatched, exactly one outbound send, to its sender, with the
\* generated reply as body, and no HUMAN_HANDOFF record.
C10_ReplyVerbatim ==
  \A d \in Deliveries :
    (/\ cur[d].cause = "none"
     /\ toLowerCase(cur[d].intent) # "handoff"
     /\ pc[d] # "await_merge")
    => /\ cur[d].merges = 1
       /\ cur[d].sends = 1
       /\ cur[d].to = cur[d].from
       /\ cur[d].body = cur[d].reply
       /\ cur[d].escs = 0

\* A reply with the intent quote has been sent.
C10_Witness ==
  \E d \in Deliveries :
    /\ cur[d].cause = "none"
    /\ cur[d].intent = "quote"
    /\ cur[d].sends = 1
    /\ cur[d].sendOk = 1
    /\ cur[d].body = cur[d].reply
    /\ pc[d] = "done"

\* C11: merge is a shallow overwrite: the record it returns has the keys of
\* the stored record and of the partial and updated_at; it holds the
\* partial's value for every key of the partial (updated_at apart), the
\* stored value for every other stored key, the time of the merge as
\* updated_at, and it is the record that is stored and that a get of the
\* sender then returns.
C11_MergeOverwrites ==
  probe.phase \in {"merged", "got"} /\ probe.phone # ""
  => /\ DOMAIN probe.returned =
          DOMAIN probe.before \cup DOMAIN probe.partial \cup {"updated_at"}
     /\ \A k \in DOMAIN probe.partial \ {"updated_at"} :
          probe.returned[k] = probe.partial[k]
     /\ \A k \in DOMAIN probe.before \ (DOMAIN probe.partial \cup {"updated_at"}) :
          probe.returned[k] = probe.before[k]
     /\ probe.returned["updated_at"] = probe.stamp
     /\ probe.stamp = ToISOString(clock)
     /\ stateMap[probe.phone] = probe.returned
     /\ (probe.phase = "got" /\ probe.gotPhone = probe.phone)
        => probe.got = probe.returned

\* A merge that replaces usage, keeps quantity, and is followed by a get.
C11_Witness ==
  /\ probe.phase = "got"
  /\ probe.gotPhone = probe.phone
  /\ DOMAIN probe.partial = {"usage"}
  /\ "usage" \in DOMAIN probe.before
  /\ "quantity" \in DOMAIN probe.before
  /\ probe.before["usage"] # probe.partial["usage"]
  /\ probe.before["updated_at"] # probe.stamp
  /\ probe.got["usage"] = probe.partial["usage"]
  /\ probe.got["quantity"] = probe.before["quantity"]

\* C12: a merge of the partial that was merged just before it for the same
\* sender leaves the record as it was, updated_at apart.
C12_MergeIdempotent ==
  (probe.phase = "merged" /\ probe.repeated)
  => /\ DOMAIN probe.returned = DOMAIN probe.before
     /\ \A k \in DOMAIN probe.returned \ {"updated_at"} :
          probe.returned[k] = probe.before[k]

\* The same partial merged twice, at two times.
C12_Witness ==
  /\ probe.phase = "merged"
  /\ probe.repeated
  /\ DOMAIN probe.partial = {"usage", "quantity"}
  /\ probe.returned["updated_at"] # probe.before["updated_at"]
  /\ probe.returned["usage"] = probe.before["usage"]

\* C13: with SIMULATE_ONLY set no call of the Meta API is ever issued:
\* POST /webhook answers 403 and leaves the dedup set, the rate counters,
\* the state store and every counter of generation, merge and send
\* untouched, POST /send answers 403, and maybeSendWhatsAppText throws.
C13_SimulateOnlyBlocksOutbound ==
  SIMULATE_ONLY
  => /\ \A m \in Ids : hist[m] = NoHist
     /\ \A d \in Deliveries : cur[d] = NoCur /\ resp[d] \in {0, 403}
     /\ processedMessageIds = [m \in Ids |-> NoTime]
     /\ phoneRateMap = [p \in Phones |-> NoRate]
     /\ stateMap = [p \in Phones |-> EmptyObj]
     /\ probe.phase # "off"
        => /\ probe.sent = 0
           /\ probe.endpoint = "send" => probe.status = 403
           /\ probe.endpoint = "maybeSend" => probe.threw

\* With SIMULATE_ONLY set a webhook delivery and a POST /send were answered.
C13_Witness ==
  /\ SIMULATE_ONLY
  /\ resp[1] = 403
  /\ probe.phase = "answered"
  /\ probe.endpoint = "send"
  /\ probe.status = 403

\* C14: POST /simulate with valid input answers 200 with the five keys of
\* the output; when the generation gave no reply or the call rejected, the
\* answer is the fallback object and the sender's state is as it was read;
\* the state is merged exactly when a reply was generated, and the answer
\* is then built of that reply.
C14_SimulateFallback ==
  /\ (probe.phase # "off" /\ probe.endpoint = "simulate")
     => (probe.merges = 1 <=> (~probe.result.threw /\ probe.result.value.present))
  /\ (probe.phase = "answered" /\ probe.endpoint = "simulate" /\ probe.from # "")
     => /\ probe.status = 200
        /\ DOMAIN probe.out =
             {"reply", "intent", "fields_collected", "fields_missing", "notes_for_human"}
        /\ (probe.result.threw \/ ~probe.result.value.present)
           => /\ probe.out = fallbackSimulate
              /\ probe.merges = 0
              /\ stateMap[probe.from] = probe.state
        /\ (~probe.result.threw /\ probe.result.value.present)
           => /\ probe.out = SimulateOutput(probe.result.value)
              /\ probe.out.reply = probe.result.value.reply
              /\ probe.merges = 1

\* The generation call of a POST /simulate timed out, for a sender with state.
C14_Witness ==
  /\ probe.phase = "answered"
  /\ probe.endpoint = "simulate"
  /\ probe.result.cause = "timeout"
  /\ probe.result.threw
  /\ probe.status = 200
  /\ probe.out = fallbackSimulate
  /\ probe.state # EmptyObj
  /\ stateMap[probe.from] = probe.state

\* C15: when the send of a generated reply is issued, on the handoff and on
\* the reply branch, the merge of that message has already been made: the
\* merged record holds the collected fields, the intent as last_intent and
\* the reply as last_reply, and the sender has a stored record with them;
\* a message whose send failed has its merge made all the same.
C15_MergeBeforeSend ==
  /\ [][\A d \in Deliveries :
          (cur'[d].sends > cur[d].sends /\ cur'[d].cause = "none")
          => /\ pc[d] = "await_merge"
             /\ cur[d].merges = 1
             /\ cur'[d].merges = 1
             /\ DOMAIN llmResult[d].fields_collected \cup {"last_intent", "last_reply"}
                  \subseteq DOMAIN cur[d].merged
             /\ cur[d].merged["last_intent"] = llmResult[d].intent
             /\ cur[d].merged["last_reply"] = llmResult[d].reply
             /\ \A k \in DOMAIN llmResult[d].fields_collected
                           \ {"last_intent", "last_reply"} :
                  cur[d].merged[k] = llmResult[d].fields_collected[k]
             /\ {"last_intent", "last_reply"} \subseteq DOMAIN stateMap[cur[d].from]
             /\ stateMap' = stateMap]_vars
  /\ [](\A d \in Deliveries :
          (cur[d].cause = "none" /\ cur[d].sends >= 1)
          => /\ cur[d].merges = 1
             /\ "last_intent" \in DOMAIN stateMap[cur[d].from])

\* The send of a generated reply failed and the state holds its merge.
C15_Witness ==
  \E d \in Deliveries :
    /\ cur[d].cause = "none"
    /\ cur[d].sendFailed = 1
    /\ resp[d] = 500
    /\ cur[d].merges = 1
    /\ stateMap[cur[d].from] = cur[d].merged
    /\ cur[d].merged["last_intent"] = cur[d].intent

\* C16: the state store changes only in the step in which an accepted
\* message with a generated reply is merged, and only for its sender; a get
\* returns the stored record (the empty one for an unknown sender) and
\* leaves the store as it is; no record loses a key or is removed; a
\* message that ends as duplicate, rate_limited, non_text or without a
\* generated reply has no merge.
C16_StoreFrame ==
  /\ [][/\ stateMap' # stateMap
           => \E d \in Deliveries :
                /\ pc[d] = "await_generate"
                /\ pc'[d] = "await_merge"
                /\ cur'[d].verdict = "accepted"
                /\ cur'[d].cause = "none"
                /\ cur'[d].merges = cur[d].merges + 1
                /\ \A p \in Phones \ {cur[d].from} : stateMap'[p] = stateMap[p]
        /\ \A p \in Phones : DOMAIN stateMap[p] \subseteq DOMAIN stateMap'[p]
        /\ \A d \in Deliveries :
             (pc[d] # "await_get" /\ pc'[d] = "await_get")
             => /\ currentState'[d] = stateMap[cur'[d].from]
                /\ stateMap' = stateMap]_vars
  /\ [](\A d \in Deliveries :
          (cur[d].verdict \in {"duplicate", "rate_limited", "non_text"}
             \/ cur[d].cause \notin {"", "none"})
          => cur[d].merges = 0)

\* One message merged the state of a sender; a later one of the same sender
\* was answered with the fallback and left the record as it was.
C16_Witness ==
  /\ NoneInFlight
  /\ cur[1].merges = 1
  /\ cur[2].cause = "invalid"
  /\ cur[2].sendOk = 1
  /\ cur[2].from = cur[1].from
  /\ stateMap[cur[1].from] = cur[1].merged
  /\ DOMAIN stateMap[cur[1].from] # {}

C18_FirstSettlementWins ==
  /\ [](probe.phase = "racing"
        => /\ probe.settlements <= 1
           /\ probe.outer.state = "pending" <=> probe.first = ""
           /\ probe.outer.state = "settled"
              => /\ probe.settlements = 1
                 /\ probe.outer.by = probe.first
                 /\ probe.first = "call"
                    => /\ probe.request.at <= probe.timeoutMs
                       /\ probe.outer.rejected = probe.request.rejected
                       /\ probe.outer.cause = probe.request.cause
                 /\ probe.first = "timer"
                    => /\ probe.timeoutMs <= probe.request.at
                       /\ probe.outer.rejected
                       /\ probe.outer.cause = "timeout"
                 /\ [rejected |-> probe.outer.rejected, cause |-> probe.outer.cause,
                     by |-> probe.outer.by]
                      \in withTimeout(probe.request, probe.timeoutMs))
  /\ [][(probe.phase = "racing" /\ probe.outer.state = "settled")
        => /\ probe'.outer = probe.outer
           /\ probe'.settlements = probe.settlements
           /\ UNCHANGED shared]_vars

\* The timer fired first, and the call completed after it.
C18_Witness ==
  /\ probe.phase = "racing"
  /\ probe.first = "timer"
  /\ probe.timer = "fired"
  /\ probe.inner = "settled"
  /\ probe.request.at > probe.timeoutMs
  /\ ~probe.request.rejected
  /\ probe.outer.rejected
  /\ probe.outer.cause = "timeout"
  /\ probe.settlements = 1

\* C19: a sender's rate window has a fixed origin: windowStart is set only
\* by a message that is not a duplicate and finds no window or one begun
\* more than rateWindowMs before the batch's now; that message passes the
\* rate check and makes the count 1; a message that finds a window no
\* older than that is counted in it and is rate_limited exactly when the
\* count exceeds the quota, so that after one rate_limited message of a
\* window every later one of it is rate_limited too.
C19_FixedOriginWindow ==
  [][\A p \in Phones :
       /\ phoneRateMap'[p] # phoneRateMap[p]
          => \E d \in Deliveries :
               /\ running = d
               /\ trace'[d] # trace[d]
               /\ cur'[d].from = p
               /\ cur'[d].verdict # "duplicate"
       /\ \A d \in Deliveries :
            (trace'[d] # trace[d] /\ cur'[d].from = p /\ cur'[d].verdict # "duplicate")
            => IF phoneRateMap[p] = NoRate
                  \/ now[d] - phoneRateMap[p].windowStart > rateWindowMs
               THEN /\ phoneRateMap'[p] = [count |-> 1, windowStart |-> now[d]]
                    /\ cur'[d].verdict # "rate_limited"
               ELSE /\ phoneRateMap'[p].windowStart = phoneRateMap[p].windowStart
                    /\ phoneRateMap'[p].count = phoneRateMap[p].count + 1
                    /\ cur'[d].verdict = "rate_limited"
                       <=> phoneRateMap'[p].count > rateLimitPerWindow
                    /\ win[p].dropped > 0 => cur'[d].verdict = "rate_limited"]_vars

\* A sender that was rate_limited sends again after the window has expired:
\* the message opens a new window and passes.
C19_Witness ==
  \E d \in Deliveries, m \in Ids :
    /\ hist[m].limited = 1
    /\ cur[d].id # m
    /\ cur[d].from = "905550001"
    /\ cur[d].rated = 1
    /\ cur[d].verdict \in {"accepted", "non_text"}
    /\ now[d] = rateWindowMs + 1
    /\ phoneRateMap["905550001"] = [count |-> 1, windowStart |-> now[d]]

\* C20: an entry of the dedup set changes only by the sweep at the start of
\* a batch, which removes it; the sweep removes exactly the entries first
\* seen more than duplicateWindowMs before the batch's now; a message is a
\* duplicate exactly when its identifier has an entry; so an identifier
\* passes the duplicate check a second time only in a batch whose now is
\* more than duplicateWindowMs after its first one.
C20_SweepAtBatchStart ==
  /\ [][/\ \A m \in Ids :
             (processedMessageIds[m] # NoTime
                /\ processedMessageIds'[m] # processedMessageIds[m])
             => /\ processedMessageIds'[m] = NoTime
                /\ \E d \in Deliveries : pc[d] = "idle" /\ pc'[d] = "loop"
        /\ \A d \in Deliveries :
             (pc[d] = "idle" /\ pc'[d] = "loop")
             => \A m \in Ids :
                  processedMessageIds'[m] =
                    IF processedMessageIds[m] # NoTime
                         /\ now'[d] - processedMessageIds[m] > duplicateWindowMs
                    THEN NoTime ELSE processedMessageIds[m]
        /\ \A d \in Deliveries :
             trace'[d] # trace[d]
             => /\ cur'[d].verdict = "duplicate"
                   <=> processedMessageIds[cur'[d].id] # NoTime
                /\ processedMessageIds'[cur'[d].id] # NoTime]_vars
  /\ [](\A m \in Ids :
          hist[m].passed >= 2 => hist[m].last - hist[m].first > duplicateWindowMs)

\* An identifier is delivered again a millisecond after its entry expired:
\* the batch swept the entry and the message is processed as new.
C20_Witness ==
  \E m \in Ids :
    /\ hist[m].seen = 2
    /\ hist[m].passed = 2
    /\ hist[m].last - hist[m].first = duplicateWindowMs + 1
    /\ processedMessageIds[m] = hist[m].last

\* C21: when two webhook deliveries that contain the same message identifier
\* run concurrently, at most one of them passes the duplicate check for it:
\* the membership test and the recording happen with no await between them,
\* so at every await of a handler the identifier of its message is in the
\* dedup set.
C21_CheckAndRecordAtomic ==
  /\ \A d \in Deliveries :
       pc[d] \in {"await_get", "await_generate", "await_merge", "await_send_fallback",
                  "await_send_handoff", "await_send_reply", "await_get_handoff"}
       => /\ cur[d].verdict = "accepted"
          /\ processedMessageIds[cur[d].id] = now[d]
  /\ \A d, e \in Deliveries :
       (/\ d # e
        /\ cur[d].id # 0
        /\ cur[d].id = cur[e].id
        /\ now[d] - now[e] <= duplicateWindowMs
        /\ now[e] - now[d] <= duplicateWindowMs)
       => cur[d].verdict = "duplicate" \/ cur[e].verdict = "duplicate"

\* The second delivery arrived while the first awaited the generation of the
\* same message, found the identifier and answered.
C21_Witness ==
  /\ pc[1] = "await_generate"
  /\ cur[1].verdict = "accepted"
  /\ cur[2].id = cur[1].id
  /\ cur[2].verdict = "duplicate"
  /\ resp[2] = 200

\* C22 (as stated): the HUMAN_HANDOFF record of a message carries exactly the
\* state that the message's own merge returned, for every interleaving with
\* other deliveries for the same sender.
C22_RecordCarriesOwnMerge ==
  \A d \in Deliveries :
    cur[d].escs >= 1 => cur[d].escState = cur[d].merged

\* C22: the HUMAN_HANDOFF record of a message carries the state stored for
\* the sender when it is read again after the acknowledgement was sent: it
\* has every key of the state the message's own merge returned, and it is
\* that state unless another delivery merged for the same sender in between,
\* in which case it is the state that this later merge returned.
C22_RecordCarriesStoredState ==
  \A d \in Deliveries :
    cur[d].escs >= 1
    => /\ cur[d].merges = 1
       /\ DOMAIN cur[d].merged \subseteq DOMAIN cur[d].escState
       /\ \/ cur[d].escState = cur[d].merged
          \/ \E e \in Deliveries \ {d} :
               /\ cur[e].from = cur[d].from
               /\ cur[e].merges = 1
               /\ cur[d].escState = cur[e].merged

\* A handoff whose record carries the state of another delivery's merge for
\* the same sender, which came between its own merge and the record.
C22_Witness ==
  \E d \in Deliveries : \E e \in Deliveries \ {d} :
    /\ cur[d].escs = 1
    /\ toLowerCase(cur[d].intent) = "handoff"
    /\ cur[e].from = cur[d].from
    /\ cur[e].merges = 1
    /\ cur[d].escState = cur[e].merged
    /\ cur[d].escState # cur[d].merged
    /\ cur[d].escState["last_intent"] = "quote"

\* C23: each inbound message causes at most one generation call and at most
\* one outbound send: after a rejected (timed-out or failed) generation call
\* the handler issues no further call and no send for the message, and
\* after a failed send it issues no further send.
C23_NoRetry ==
  /\ \A d \in Deliveries :
       /\ cur[d].gens <= 1
       /\ cur[d].sends <= 1
       /\ cur[d].sends <= cur[d].gens
       /\ cur[d].threw
          => cur[d].gens = 1 /\ cur[d].sends = 0 /\ pc[d] = "done"
       /\ cur[d].sendFailed >= 1
          => cur[d].sendFailed = 1 /\ cur[d].sends = 1 /\ pc[d] = "done"
  /\ \A m \in Ids :
       /\ hist[m].gens <= hist[m].accepted
       /\ hist[m].sends <= hist[m].gens

\* One message whose generation call timed out and one whose send failed:
\* both handlers have ended after the single attempt.
C23_Witness ==
  \E d \in Deliveries : \E e \in Deliveries \ {d} :
    /\ NoneInFlight
    /\ cur[d].threw
    /\ cur[d].cause = "timeout"
    /\ cur[d].gens = 1
    /\ cur[e].sendFailed = 1
    /\ cur[e].sends = 1

\* C24: within one webhook delivery the messages are processed one after the
\* other: when the handler begins a message (and when it answers 200), the
\* message before it was dropped by the guard or has completed its state
\* read, its generation call, its merge (when there was a reply), its
\* outbound send and, for a handoff, its HUMAN_HANDOFF record.
C24_Sequential ==
  [][\A d \in Deliveries :
       LET c == cur[d]
           terminal ==
             \/ c.verdict \in {"duplicate", "rate_limited", "non_text"}
                  /\ c.gens = 0 /\ c.merges = 0 /\ c.sends = 0
             \/ /\ c.verdict = "accepted"
                /\ c.gens = 1
                /\ ~c.threw
                /\ c.sends = 1
                /\ c.sendOk = 1
                /\ c.merges = (IF c.cause = "none" THEN 1 ELSE 0)
                /\ c.escs = (IF c.cause = "none" /\ toLowerCase(c.intent) = "handoff"
                             THEN 1 ELSE 0)
       IN /\ (trace'[d] # trace[d] /\ trace[d] # <<>>)
             => /\ terminal
                /\ trace'[d] = Append(trace[d], cur'[d].id)
          /\ (pc'[d] = "done" /\ pc[d] # "done" /\ resp'[d] = 200 /\ trace[d] # <<>>)
             => terminal /\ Len(trace[d]) = len[d]]_vars

\* A batch of three messages: the third is begun after the first two were
\* answered, the first of them with a merge.
C24_Witness ==
  \E m1, m2, m3 \in Ids :
    /\ trace[1] = <<m1, m2, m3>>
    /\ m1 # m2
    /\ hist[m1].merges = 1
    /\ hist[m1].sendOk = 1
    /\ hist[m2].gens = 1
    /\ hist[m2].sendOk = 1
    /\ cur[1].id = m3
    /\ pc[1] = "await_generate"

\* C25 (as stated): every message that passes the duplicate, rate and kind
\* checks reaches dispatch with exactly one outbound send attempt (generated
\* reply, handoff acknowledgement or fallback), whatever the outcome of its
\* generation call: once the handler is through with the message, the send
\* has been issued.
C25_AcceptedReachesDispatch ==
  \A d \in Deliveries :
    (cur[d].verdict = "accepted" /\ pc[d] \in {"loop", "done"})
    => /\ cur[d].sends = 1
       /\ cur[d].to = cur[d].from
       /\ cur[d].body \in {FALLBACK_BODY, HANDOFF_ACK_BODY, cur[d].reply}

\* C26: when two deliveries for the same sender interleave, no collected
\* fact is lost.  A merge starts from the record stored at merge time: it
\* stores and returns that record with the keys of its partial (and
\* updated_at) overwritten and every other key kept, and it leaves the other
\* senders alone.  So after both merges the sender's state has every key
\* that either merge returned and is the record the later one returned.
C26_NoFactLost ==
  /\ [][\A d \in Deliveries :
          cur'[d].merges = cur[d].merges + 1
          => LET from == message[d].from
                 partial == WebhookPartial(llmResult'[d])
             IN /\ stateMap'[from] = cur'[d].merged
                /\ DOMAIN stateMap'[from] =
                     DOMAIN stateMap[from] \cup DOMAIN partial \cup {"updated_at"}
                /\ \A k \in DOMAIN partial \ {"updated_at"} :
                     stateMap'[from][k] = partial[k]
                /\ \A k \in DOMAIN stateMap[from] \ (DOMAIN partial \cup {"updated_at"}) :
                     stateMap'[from][k] = stateMap[from][k]
                /\ \A p \in Phones \ {from} : stateMap'[p] = stateMap[p]]_vars
  /\ [](\A d \in Deliveries : \A e \in Deliveries \ {d} :
          (cur[d].from = cur[e].from /\ cur[d].merges = 1 /\ cur[e].merges = 1)
          => /\ DOMAIN cur[d].merged \cup DOMAIN cur[e].merged
                  \subseteq DOMAIN stateMap[cur[d].from]
             /\ stateMap[cur[d].from] \in {cur[d].merged, cur[e].merged})

\* Two handlers for one sender have both read the empty state and then both
\* merged: the stored state has the field of the one and the field of the other.
C26_Witness ==
  /\ pc[1] = "await_merge"
  /\ pc[2] = "await_merge"
  /\ message[1].from = message[2].from
  /\ currentState[1] = EmptyObj
  /\ currentState[2] = EmptyObj
  /\ cur[1].merges = 1
  /\ cur[2].merges = 1
  /\ {"usage", "size_mm_or_ligne"} \subseteq DOMAIN stateMap[message[1].from]
  /\ stateMap[message[1].from]["usage"] = "u1"
  /\ stateMap[message[1].from]["size_mm_or_ligne"] = "s1"

====
